---- MODULE Spec2Model ----
(***************************************************************************)
(* picool: a thermostat for a cooling appliance (src/src/main.rs).         *)
(*                                                                         *)
(* The module models the dwell-guarded on/off state machine (transition),  *)
(* startup recovery (init), the adaptive threshold Compensator, the        *)
(* ExtremeTracker and the control loop (run) that ties them together.      *)
(*                                                                         *)
(* Numbers.  An f32 is a record [k, v]:                                    *)
(*   k = "fin": the finite value v / Scale degrees Celsius (fixed point),  *)
(*   k = "nan": not-a-number,                                              *)
(*   k = "inf": +infinity (v = 1) or -infinity (v = -1),                   *)
(*   k = "lim": f32::MAX (v = 1) or f32::MIN (v = -1), the sentinels of    *)
(*              the ExtremeTracker.                                        *)
(* Scale is a power of two times 100, so that 0.01 is one grid step times  *)
(* a power of two and every halving done by the median within the bounds   *)
(* of the model is exact, as it is in binary floating point.               *)
(* Instants and Durations are integers, in seconds.                        *)
(***************************************************************************)
EXTENDS Integers, Sequences, FiniteSets, TLC

VARIABLES
    pc,               \* position of the process in main/run
    clock,            \* the World's monotonic clock, World::now
    relay,            \* the World's power state, last set_power_state
    restored,         \* what World::restore_power_state returned
    boot,             \* the clock value init read
    initial_state,    \* run's parameter initial_state
    state,            \* run: state
    previous_state,   \* run: previous_state
    temperature,      \* run: temperature
    low_compensator,  \* run: low_compensator
    high_compensator, \* run: high_compensator
    low_threshold,    \* run: low_threshold
    high_threshold,   \* run: high_threshold
    extremes,         \* run: extremes
    cycles,           \* run: cycles
    persist_calls,    \* how many times World::persist_last_off_transition was called
    lastCommand,      \* the latest set_power_state call and the clock of its transition
    stored_compensation, \* the compensation values the World has stored
    events,           \* what the current iteration of the loop has done so far, in order
    half_cycle,       \* the extremes of the readings since the latest change of on/off-ness
    call,             \* arguments of a stand-alone call of transition
    result,           \* what that call returned
    config,           \* how the stand-alone Compensator was constructed and what it is offered
    comp,             \* a stand-alone Compensator
    pushed,           \* the valid values given to comp.push_observation, in order
    before,           \* comp as it was before the latest push_observation
    lastValue,        \* the argument of the latest push_observation
    tracker,          \* a stand-alone ExtremeTracker
    samples           \* the values given to tracker.push since new/reset, in order

vars == <<pc, clock, relay, restored, boot, initial_state, state, previous_state,
          temperature, low_compensator, high_compensator, low_threshold,
          high_threshold, extremes, cycles, persist_calls, lastCommand,
          stored_compensation, events, half_cycle,
          call, result, config, comp, pushed, before, lastValue, tracker, samples>>

loopVars == <<pc, clock, relay, restored, boot, initial_state, state, previous_state,
              temperature, low_compensator, high_compensator, low_threshold,
              high_threshold, extremes, cycles, persist_calls, lastCommand,
              stored_compensation, events, half_cycle>>
transitionVars == <<call, result>>
compVars == <<config, comp, pushed, before, lastValue>>
trackerVars == <<tracker, samples>>

----------------------------------------------------------------------------
(* Bounds of the model *)

MaxPushes == 11        \* valid pushes to a stand-alone Compensator with two values to choose from
ShortPushes == 5       \* valid pushes to a stand-alone Compensator with many values to choose from
MaxSamples == 3        \* pushes to a stand-alone ExtremeTracker between resets
MaxClock == 750        \* the control loop is followed for this many seconds after startup

----------------------------------------------------------------------------
(* f32 *)

RECURSIVE Pow2(_)
Pow2(n) == IF n = 0 THEN 1 ELSE 2 * Pow2(n - 1)

Scale == 100 * Pow2(MaxPushes + 1)

F(n) == [k |-> "fin", v |-> n]
NaN == [k |-> "nan", v |-> 0]
PosInf == [k |-> "inf", v |-> 1]
NegInf == [k |-> "inf", v |-> -1]
F32_MAX == [k |-> "lim", v |-> 1]
F32_MIN == [k |-> "lim", v |-> -1]

\* hundredths of a degree, as an f32
C(h) == F(h * (Scale \div 100))

is_nan(x) == x.k = "nan"

Tier(x) == IF x.k = "inf" THEN 2 * x.v ELSE IF x.k = "lim" THEN x.v ELSE 0

\* a < b on f32: false when either side is NaN
FLt(a, b) ==
    /\ ~is_nan(a)
    /\ ~is_nan(b)
    /\ \/ Tier(a) < Tier(b)
       \/ Tier(a) = 0 /\ Tier(b) = 0 /\ a.v < b.v

FGt(a, b) == FLt(b, a)

\* a == b on f32: false when either side is NaN
FEq(a, b) == ~is_nan(a) /\ ~is_nan(b) /\ a = b

FLe(a, b) == FLt(a, b) \/ FEq(a, b)

FNeg(a) == IF is_nan(a) THEN NaN ELSE [k |-> a.k, v |-> 0 - a.v]

\* a + b on f32, for finite values on the grid, infinities and NaN
FAdd(a, b) ==
    IF is_nan(a) \/ is_nan(b) THEN NaN
    ELSE IF a.k = "inf" /\ b.k = "inf" THEN (IF a.v = b.v THEN a ELSE NaN)
    ELSE IF a.k = "inf" THEN a
    ELSE IF b.k = "inf" THEN b
    ELSE F(a.v + b.v)

FSub(a, b) == FAdd(a, FNeg(b))

\* a / 2.0 on f32
FHalf(a) == IF a.k = "fin" THEN F(a.v \div 2) ELSE a

FAbs(a) == IF a.k = "fin" THEN F(IF a.v < 0 THEN 0 - a.v ELSE a.v)
           ELSE IF a.k = "nan" THEN NaN
           ELSE [k |-> a.k, v |-> 1]

Zero == F(0)

----------------------------------------------------------------------------
(* Program constants *)

TARGET_RANGE == [start |-> C(130), end |-> C(440)]
MAX_COMPENSATION == C(160)
MINIMUM_ON_DURATION == 60 * 2
MINIMUM_OFF_DURATION == 60 * 8
POLL_DURATION == 10
READ_BACKOFF == 10
MAX_OBSERVATIONS == 10
MIN_UPDATE == C(1)

\* thread::sleep returns after the duration or later: the extra seconds
Oversleep == {0, 5}

----------------------------------------------------------------------------
(* enum State, enum RestoredPowerState *)

InitiallyOff == [tag |-> "InitiallyOff", since |-> 0]
MinimumIntervalOn(s) == [tag |-> "MinimumIntervalOn", since |-> s]
MinimumIntervalOff(s) == [tag |-> "MinimumIntervalOff", since |-> s]
On == [tag |-> "On", since |-> 0]
Off == [tag |-> "Off", since |-> 0]

CurrentlyOn == [tag |-> "CurrentlyOn", duration |-> 0]
OffFor(d) == [tag |-> "OffFor", duration |-> d]
OffForUnknownDuration == [tag |-> "OffForUnknownDuration", duration |-> 0]
RestoreFailed == [tag |-> "Err", duration |-> 0]

\* is_on that is true for MinimumIntervalOn only
is_on_guarded(s) == s.tag \in {"MinimumIntervalOn"}

is_on(s) == s.tag \in {"MinimumIntervalOn", "On"}

is_off(s) == ~is_on(s)

\* is_too_cold with <= for <
is_too_cold_inclusive(t, threshold) == FLe(t, threshold)

is_too_cold(t, threshold) == FLt(t, threshold)

\* is_too_hot with the comparison reversed
is_too_hot_reversed(t, threshold) == FLt(t, threshold)

is_too_hot(t, threshold) == FGt(t, threshold)

\* transition with the two minimum durations exchanged
transition_swapped(initial, current_temperature, threshold_range, now) ==
    IF initial.tag = "MinimumIntervalOn" /\ now - initial.since < MINIMUM_OFF_DURATION
        THEN MinimumIntervalOn(initial.since)
    ELSE IF initial.tag = "MinimumIntervalOff" /\ now - initial.since < MINIMUM_ON_DURATION
        THEN MinimumIntervalOff(initial.since)
    ELSE IF initial.tag \in {"On", "MinimumIntervalOn"}
        THEN IF is_too_cold(current_temperature, threshold_range.start)
                THEN MinimumIntervalOff(now)
                ELSE On
    ELSE IF is_too_hot(current_temperature, threshold_range.end)
                THEN MinimumIntervalOn(now)
                ELSE Off

\* transition with <= for < in the two guards
transition_inclusive(initial, current_temperature, threshold_range, now) ==
    IF initial.tag = "MinimumIntervalOn" /\ now - initial.since <= MINIMUM_ON_DURATION
        THEN MinimumIntervalOn(initial.since)
    ELSE IF initial.tag = "MinimumIntervalOff" /\ now - initial.since <= MINIMUM_OFF_DURATION
        THEN MinimumIntervalOff(initial.since)
    ELSE IF initial.tag \in {"On", "MinimumIntervalOn"}
        THEN IF is_too_cold(current_temperature, threshold_range.start)
                THEN MinimumIntervalOff(now)
                ELSE On
    ELSE IF is_too_hot(current_temperature, threshold_range.end)
                THEN MinimumIntervalOn(now)
                ELSE Off

transition(initial, current_temperature, threshold_range, now) ==
    IF initial.tag = "MinimumIntervalOn" /\ now - initial.since < MINIMUM_ON_DURATION
        THEN MinimumIntervalOn(initial.since)
    ELSE IF initial.tag = "MinimumIntervalOff" /\ now - initial.since < MINIMUM_OFF_DURATION
        THEN MinimumIntervalOff(initial.since)
    ELSE IF initial.tag \in {"On", "MinimumIntervalOn"}
        THEN IF is_too_cold(current_temperature, threshold_range.start)
                THEN MinimumIntervalOff(now)
                ELSE On
    ELSE IF is_too_hot(current_temperature, threshold_range.end)
                THEN MinimumIntervalOn(now)
                ELSE Off

\* init with >= for > in the test of the off duration
init_inclusive(restore, now) ==
    IF restore.tag = "CurrentlyOn" THEN MinimumIntervalOn(now)
    ELSE IF restore.tag = "OffFor"
        THEN IF restore.duration >= MINIMUM_OFF_DURATION
                THEN InitiallyOff
                ELSE MinimumIntervalOff(now - restore.duration)
    ELSE IF restore.tag = "OffForUnknownDuration" THEN MinimumIntervalOff(now)
    ELSE MinimumIntervalOff(now)

\* init with the two arms of the test of the off duration exchanged
init_exchanged(restore, now) ==
    IF restore.tag = "CurrentlyOn" THEN MinimumIntervalOn(now)
    ELSE IF restore.tag = "OffFor"
        THEN IF restore.duration > MINIMUM_OFF_DURATION
                THEN MinimumIntervalOff(now - restore.duration)
                ELSE InitiallyOff
    ELSE IF restore.tag = "OffForUnknownDuration" THEN MinimumIntervalOff(now)
    ELSE MinimumIntervalOff(now)

init(restore, now) ==
    IF restore.tag = "CurrentlyOn" THEN MinimumIntervalOn(now)
    ELSE IF restore.tag = "OffFor"
        THEN IF restore.duration > MINIMUM_OFF_DURATION
                THEN InitiallyOff
                ELSE MinimumIntervalOff(now - restore.duration)
    ELSE IF restore.tag = "OffForUnknownDuration" THEN MinimumIntervalOff(now)
    ELSE MinimumIntervalOff(now)

----------------------------------------------------------------------------
(* struct Compensator *)

Compensator_new(target, seed_compensation, max_compensation) ==
    [target |-> target,
     observations |-> <<>>,
     compensation |-> IF is_nan(seed_compensation) THEN Zero ELSE seed_compensation,
     max_compensation |-> max_compensation]

\* is_capped with <= and >= for < and >
is_capped_inclusive(c) ==
    IF FLt(c.max_compensation, Zero)
        THEN FLe(c.compensation, c.max_compensation)
        ELSE FLe(c.max_compensation, c.compensation)

is_capped(c) ==
    IF FLt(c.max_compensation, Zero)
        THEN FLt(c.compensation, c.max_compensation)
        ELSE FGt(c.compensation, c.max_compensation)

\* is_inverted with its two arms exchanged
is_inverted_exchanged(c) ==
    IF FLt(c.max_compensation, Zero)
        THEN FLt(c.compensation, Zero)
        ELSE FGt(c.compensation, Zero)

is_inverted(c) ==
    IF FLt(c.max_compensation, Zero)
        THEN FGt(c.compensation, Zero)
        ELSE FLt(c.compensation, Zero)

get_compensation(c) ==
    IF is_capped(c) THEN c.max_compensation
    ELSE IF is_inverted(c) THEN Zero
    ELSE c.compensation

get_threshold(c) == FAdd(c.target, get_compensation(c))

\* insert x into the ascending sequence s, after the elements not greater than x
RECURSIVE Insert(_, _)
Insert(x, s) ==
    IF s = <<>> THEN <<x>>
    ELSE IF FLt(x, Head(s)) THEN <<x>> \o s
    ELSE <<Head(s)>> \o Insert(x, Tail(s))

\* sorted_observations.sort_by(partial_cmp), for a sequence without NaN
RECURSIVE sort(_)
sort(s) == IF s = <<>> THEN <<>> ELSE Insert(Head(s), sort(Tail(s)))

\* median that takes the upper middle element for an even length
median_upper(sorted_observations) ==
    LET len == Len(sorted_observations) IN
    IF len = 1 THEN sorted_observations[1]
    ELSE sorted_observations[(len \div 2) + 1]

\* the match on sorted_observations.len() in push_observation
median(sorted_observations) ==
    LET len == Len(sorted_observations) IN
    IF len = 1 THEN sorted_observations[1]
    ELSE IF len % 2 = 0
        THEN FHalf(FAdd(sorted_observations[len \div 2],
                        sorted_observations[(len \div 2) + 1]))
    ELSE sorted_observations[(len \div 2) + 1]

\* push_back that evicts when the history reaches MAX_OBSERVATIONS
push_back_short(observations, delta) ==
    LET appended == Append(observations, delta) IN
    IF Len(appended) >= MAX_OBSERVATIONS THEN Tail(appended) ELSE appended

\* the history after push_back and the pop_front that keeps it at MAX_OBSERVATIONS
push_back(observations, delta) ==
    LET appended == Append(observations, delta) IN
    IF Len(appended) > MAX_OBSERVATIONS THEN Tail(appended) ELSE appended

\* partial_cmp(..).expect(..) panics in the sort when the history holds a NaN
sort_panics(observations) ==
    \E i \in 1..Len(observations) : is_nan(observations[i])

\* push_observation without the test for NaN
push_observation_unchecked(c, value) ==
    LET delta == FSub(get_threshold(c), value)
        observations == push_back(c.observations, delta)
        median_delta == median(sort(observations))
        update == FSub(median_delta, c.compensation)
    IN  IF sort_panics(observations)
            THEN [c EXCEPT !.observations = observations]
        ELSE IF FGt(FAbs(update), MIN_UPDATE)
            THEN [c EXCEPT !.observations = observations,
                           !.compensation = median_delta]
        ELSE [c EXCEPT !.observations = observations]

\* push_observation that also takes an update of exactly MIN_UPDATE
push_observation_inclusive(c, value) ==
    IF is_nan(value) THEN c
    ELSE
        LET delta == FSub(get_threshold(c), value)
            observations == push_back(c.observations, delta)
            median_delta == median(sort(observations))
            update == FSub(median_delta, c.compensation)
        IN  IF sort_panics(observations)
                THEN [c EXCEPT !.observations = observations]
            ELSE IF FGt(FAbs(update), MIN_UPDATE) \/ FEq(FAbs(update), MIN_UPDATE)
                THEN [c EXCEPT !.observations = observations,
                               !.compensation = median_delta]
            ELSE [c EXCEPT !.observations = observations]

push_observation(c, value) ==
    IF is_nan(value) THEN c
    ELSE
        LET delta == FSub(get_threshold(c), value)
            observations == push_back(c.observations, delta)
            median_delta == median(sort(observations))
            update == FSub(median_delta, c.compensation)
        IN  IF sort_panics(observations)
                THEN [c EXCEPT !.observations = observations]
            ELSE IF FGt(FAbs(update), MIN_UPDATE)
                THEN [c EXCEPT !.observations = observations,
                               !.compensation = median_delta]
            ELSE [c EXCEPT !.observations = observations]

----------------------------------------------------------------------------
(* struct ExtremeTracker *)

ExtremeTracker_new == [min |-> F32_MAX, max |-> F32_MIN, measured |-> FALSE]

ExtremeTracker_reset(e) == ExtremeTracker_new

\* push that records the value and leaves measured as it was
ExtremeTracker_push_unmarked(e, value) ==
    [min |-> IF FLt(value, e.min) THEN value ELSE e.min,
     max |-> IF FGt(value, e.max) THEN value ELSE e.max,
     measured |-> e.measured]

ExtremeTracker_push(e, value) ==
    [min |-> IF FLt(value, e.min) THEN value ELSE e.min,
     max |-> IF FGt(value, e.max) THEN value ELSE e.max,
     measured |-> TRUE]

\* Option<f32>: None or Some(x)
None == [some |-> FALSE, x |-> Zero]
Some(x) == [some |-> TRUE, x |-> x]

ExtremeTracker_min(e) == IF e.measured THEN Some(e.min) ELSE None

ExtremeTracker_max(e) == IF e.measured THEN Some(e.max) ELSE None

----------------------------------------------------------------------------
(* Values a specification leaves alone *)

Pending == [tag |-> "pending", since |-> 0]
NoCommand == [issued |-> FALSE, on |-> FALSE, at |-> 0]
NoCall == [initial |-> Off, current_temperature |-> Zero,
           threshold_range |-> [start |-> Zero, end |-> Zero], now |-> 0]
NoCompensator == Compensator_new(Zero, Zero, F(1))

LoopIdle ==
    /\ pc = "idle"
    /\ clock = 0
    /\ relay = FALSE
    /\ restored = RestoreFailed
    /\ boot = 0
    /\ initial_state = Off
    /\ state = Off
    /\ previous_state = Off
    /\ temperature = Zero
    /\ low_compensator = NoCompensator
    /\ high_compensator = NoCompensator
    /\ low_threshold = Zero
    /\ high_threshold = Zero
    /\ extremes = ExtremeTracker_new
    /\ cycles = 0
    /\ persist_calls = 0
    /\ lastCommand = NoCommand
    /\ stored_compensation = [cooling |-> Zero, heating |-> Zero]
    /\ events = <<>>
    /\ half_cycle = ExtremeTracker_new

TransitionIdle == call = NoCall /\ result = Pending

NoConfig == [target |-> Zero, seed |-> Zero, max |-> F(1), long |-> FALSE, values |-> {}]

CompIdle ==
    /\ config = NoConfig
    /\ comp = NoCompensator
    /\ pushed = <<>>
    /\ before = NoCompensator
    /\ lastValue = Zero

TrackerIdle == tracker = ExtremeTracker_new /\ samples = <<>>

----------------------------------------------------------------------------
(* transition as a function: every call from a grid of arguments *)

CallNow == 1000

CallSince ==
    {CallNow - d : d \in {0, 1,
                          MINIMUM_ON_DURATION - 1, MINIMUM_ON_DURATION, MINIMUM_ON_DURATION + 1,
                          MINIMUM_OFF_DURATION - 1, MINIMUM_OFF_DURATION, MINIMUM_OFF_DURATION + 1}}

CallStates ==
    {InitiallyOff, On, Off}
    \cup {MinimumIntervalOn(s) : s \in CallSince}
    \cup {MinimumIntervalOff(s) : s \in CallSince}

CallThresholds ==
    {[start |-> TARGET_RANGE.start, end |-> TARGET_RANGE.end],
     [start |-> C(200), end |-> C(200)],
     [start |-> C(290), end |-> C(280)]}

CallTemperatures ==
    {NaN, PosInf, NegInf}
    \cup {C(h) : h \in {129, 130, 131, 199, 200, 201, 279, 280, 285, 290, 291, 439, 440, 441}}

TransitionInit ==
    /\ LoopIdle /\ CompIdle /\ TrackerIdle
    /\ call \in [initial : CallStates, current_temperature : CallTemperatures,
                 threshold_range : CallThresholds, now : {CallNow}]
    /\ result = Pending

CallTransition ==
    /\ result = Pending
    /\ result' = transition(call.initial, call.current_temperature,
                            call.threshold_range, call.now)
    /\ UNCHANGED <<call, loopVars, compVars, trackerVars>>

TransitionNext == CallTransition

SpecTransition == TransitionInit /\ [][TransitionNext]_vars

----------------------------------------------------------------------------
(* A Compensator on its own: new, then any sequence of push_observation *)

\* a value above v by a fraction of a hundredth that the medians of a short
\* sequence of pushes can halve exactly
JustOver(v) == F(v.v + Pow2(ShortPushes + 1))

\* a construction and the observations offered to it; long: up to MaxPushes
\* valid pushes, otherwise up to ShortPushes
Configs ==
    {[target |-> C(3300), seed |-> Zero, max |-> C(300), long |-> FALSE,
      values |-> {C(3200), C(3300), C(3250), C(3275)}],
     [target |-> C(4000), seed |-> Zero, max |-> C(-300), long |-> FALSE,
      values |-> {C(4200), C(4000), C(4100), PosInf, NegInf}],
     [target |-> C(4000), seed |-> C(-100), max |-> C(-300), long |-> FALSE,
      values |-> {C(4050), C(3900), C(4001), JustOver(C(4001))}],
     [target |-> C(4000), seed |-> C(-300), max |-> C(-300), long |-> FALSE,
      values |-> {C(3900), C(4300), C(4400)}],
     [target |-> C(3300), seed |-> C(300), max |-> C(300), long |-> FALSE,
      values |-> {C(3350), C(3000), C(3299)}],
     [target |-> C(3300), seed |-> C(400), max |-> C(300), long |-> FALSE,
      values |-> {C(3350), C(2900), PosInf}],
     [target |-> C(3300), seed |-> C(-100), max |-> C(300), long |-> FALSE,
      values |-> {C(3350), C(3200), NegInf}],
     [target |-> C(3300), seed |-> PosInf, max |-> C(50), long |-> FALSE,
      values |-> {C(3200), C(3350)}],
     [target |-> C(3300), seed |-> NaN, max |-> C(50), long |-> TRUE,
      values |-> {C(3200), C(3350)}],
     [target |-> C(4000), seed |-> Zero, max |-> C(-50), long |-> TRUE,
      values |-> {C(4100), C(3950)}],
     [target |-> TARGET_RANGE.start, seed |-> Zero, max |-> MAX_COMPENSATION, long |-> TRUE,
      values |-> {C(-50), C(100)}],
     [target |-> TARGET_RANGE.end, seed |-> Zero, max |-> FNeg(MAX_COMPENSATION), long |-> TRUE,
      values |-> {C(650), C(500)}]}

CompInit ==
    /\ LoopIdle /\ TransitionIdle /\ TrackerIdle
    /\ config \in Configs
    /\ comp = Compensator_new(config.target, config.seed, config.max)
    /\ pushed = <<>>
    /\ before = comp
    /\ lastValue = Zero

PushBudget == IF config.long THEN MaxPushes ELSE ShortPushes

PushObservation ==
    /\ ~sort_panics(comp.observations)
    /\ \E value \in config.values \cup {NaN} :
        /\ is_nan(value) \/ Len(pushed) < PushBudget
        /\ before' = comp
        /\ lastValue' = value
        /\ comp' = push_observation(comp, value)
        /\ pushed' = IF is_nan(value) THEN pushed ELSE Append(pushed, value)
    /\ UNCHANGED <<config, loopVars, transitionVars, trackerVars>>

CompNext == PushObservation

SpecCompensator == CompInit /\ [][CompNext]_vars

----------------------------------------------------------------------------
(* An ExtremeTracker on its own: new, then any sequence of push and reset *)

TrackerValues == {C(500), C(200), C(900), C(-100), NaN, PosInf, NegInf}

TrackerInit ==
    /\ LoopIdle /\ TransitionIdle /\ CompIdle
    /\ tracker = ExtremeTracker_new
    /\ samples = <<>>

TrackerPush ==
    /\ Len(samples) < MaxSamples
    /\ \E value \in TrackerValues :
        /\ tracker' = ExtremeTracker_push(tracker, value)
        /\ samples' = Append(samples, value)
    /\ UNCHANGED <<loopVars, transitionVars, compVars>>

TrackerReset ==
    /\ tracker' = ExtremeTracker_reset(tracker)
    /\ samples' = <<>>
    /\ UNCHANGED <<loopVars, transitionVars, compVars>>

TrackerNext == TrackerPush \/ TrackerReset

SpecTracker == TrackerInit /\ [][TrackerNext]_vars

----------------------------------------------------------------------------
(* The program: main calls init, then run, which loops for ever *)

StartClock == 1000

\* World::restore_power_state: Ok(..) or Err
RestoreResults ==
    {CurrentlyOn, OffForUnknownDuration, RestoreFailed}
    \cup {OffFor(d) : d \in {295, MINIMUM_OFF_DURATION, MINIMUM_OFF_DURATION + 1}}

\* World::get_temperature: Ok(t), a whole number of millidegrees
Temperatures == {C(-50), C(300), C(650)}

\* the compensation file of the World: "cooling heating", 0.0 0.0 when absent
StoredCompensation(cooling, heating) == [cooling |-> cooling, heating |-> heating]
NoStoredCompensation == StoredCompensation(Zero, Zero)

\* one step of the loop body, as it is logged in events
Event(e, t, was, on) == [e |-> e, t |-> t, was |-> was, on |-> on]

\* the state of the process before main has run
Loaded ==
    /\ TransitionIdle /\ CompIdle /\ TrackerIdle
    /\ pc = "main"
    /\ clock = StartClock
    /\ relay = (restored = CurrentlyOn)
    /\ boot = 0
    /\ initial_state = Off
    /\ state = Off
    /\ previous_state = Off
    /\ temperature = Zero
    /\ low_compensator = NoCompensator
    /\ high_compensator = NoCompensator
    /\ low_threshold = Zero
    /\ high_threshold = Zero
    /\ extremes = ExtremeTracker_new
    /\ cycles = 0
    /\ persist_calls = 0
    /\ lastCommand = NoCommand
    /\ events = <<>>
    /\ half_cycle = ExtremeTracker_new

Init ==
    /\ restored \in RestoreResults
    /\ stored_compensation = NoStoredCompensation
    /\ Loaded

\* main: init(&world), then run up to the top of its loop
Startup ==
    /\ pc = "main"
    /\ boot' = clock
    /\ initial_state' = init(restored, clock)
    /\ state' = initial_state'
    /\ low_compensator' = Compensator_new(TARGET_RANGE.start, Zero, MAX_COMPENSATION)
    /\ high_compensator' = Compensator_new(TARGET_RANGE.end, Zero, FNeg(MAX_COMPENSATION))
    /\ low_threshold' = get_threshold(low_compensator')
    /\ high_threshold' = get_threshold(high_compensator')
    /\ extremes' = ExtremeTracker_new
    /\ cycles' = 0
    /\ pc' = "top"
    /\ UNCHANGED <<clock, relay, restored, stored_compensation, previous_state, temperature,
                   persist_calls, lastCommand, events, half_cycle,
                   transitionVars, compVars, trackerVars>>

\* World::sleep(duration) of a World whose clock runs
Sleep(duration) ==
    \E extra \in Oversleep :
        /\ clock + duration + extra <= StartClock + MaxClock
        /\ clock' = clock + duration + extra

\* LoopTop that sleeps whatever the state is
LoopTop_always ==
    /\ pc = "top"
    /\ Sleep(POLL_DURATION)
    /\ pc' = "read"
    /\ events' = <<>>
    /\ UNCHANGED <<relay, restored, stored_compensation, boot, initial_state, state,
                   previous_state, temperature,
                   low_compensator, high_compensator, low_threshold, high_threshold,
                   extremes, cycles, persist_calls, lastCommand, half_cycle,
                   transitionVars, compVars, trackerVars>>

\* run: the poll sleep at the top of the loop
LoopTop ==
    /\ pc = "top"
    /\ IF state # InitiallyOff THEN Sleep(POLL_DURATION) ELSE clock' = clock
    /\ pc' = "read"
    /\ events' = <<>>
    /\ UNCHANGED <<relay, restored, stored_compensation, boot, initial_state, state,
                   previous_state, temperature,
                   low_compensator, high_compensator, low_threshold, high_threshold,
                   extremes, cycles, persist_calls, lastCommand, half_cycle,
                   transitionVars, compVars, trackerVars>>

\* ReadFail that takes 0.0 for the reading it did not get and tracks it
ReadFail_tracked ==
    /\ pc = "read"
    /\ Sleep(READ_BACKOFF)
    /\ extremes' = ExtremeTracker_push(extremes, Zero)
    /\ UNCHANGED <<pc, relay, restored, stored_compensation, boot, initial_state, state,
                   previous_state, temperature,
                   low_compensator, high_compensator, low_threshold, high_threshold,
                   cycles, persist_calls, lastCommand, events, half_cycle,
                   transitionVars, compVars, trackerVars>>

\* run: get_temperature failed, back off and retry
ReadFail ==
    /\ pc = "read"
    /\ Sleep(READ_BACKOFF)
    /\ UNCHANGED <<pc, relay, restored, stored_compensation, boot, initial_state, state,
                   previous_state, temperature,
                   low_compensator, high_compensator, low_threshold, high_threshold,
                   extremes, cycles, persist_calls, lastCommand, events, half_cycle,
                   transitionVars, compVars, trackerVars>>

\* ReadOk that leaves the binding temperature as it was
ReadOk_stale ==
    /\ pc = "read"
    /\ \E t \in Temperatures :
          events' = Append(events, Event("read", t, FALSE, FALSE))
    /\ pc' = "push"
    /\ UNCHANGED <<clock, relay, restored, stored_compensation, boot, initial_state, state,
                   previous_state, temperature,
                   low_compensator, high_compensator, low_threshold, high_threshold,
                   extremes, cycles, persist_calls, lastCommand, half_cycle,
                   transitionVars, compVars, trackerVars>>

\* run: get_temperature succeeded
ReadOk ==
    /\ pc = "read"
    /\ temperature' \in Temperatures
    /\ pc' = "push"
    /\ events' = Append(events, Event("read", temperature', FALSE, FALSE))
    /\ UNCHANGED <<clock, relay, restored, stored_compensation, boot, initial_state, state,
                   previous_state,
                   low_compensator, high_compensator, low_threshold, high_threshold,
                   extremes, cycles, persist_calls, lastCommand, half_cycle,
                   transitionVars, compVars, trackerVars>>

\* run: extremes.push(temperature)
PushExtremes ==
    /\ pc = "push"
    /\ extremes' = ExtremeTracker_push(extremes, temperature)
    /\ half_cycle' = ExtremeTracker_push(half_cycle, temperature)
    /\ pc' = "transition"
    /\ events' = Append(events, Event("track", temperature, FALSE, FALSE))
    /\ UNCHANGED <<clock, relay, restored, stored_compensation, boot, initial_state, state,
                   previous_state, temperature,
                   low_compensator, high_compensator, low_threshold, high_threshold,
                   cycles, persist_calls, lastCommand,
                   transitionVars, compVars, trackerVars>>

\* the bindings temperature and previous_state of the loop body, once the
\* iteration is over
Dropped == temperature' = Zero /\ previous_state' = Off

\* run: new_state = transition(..), previous_state = replace(&mut state, new_state)
Evaluate ==
    /\ pc = "transition"
    /\ state' = transition(state, temperature,
                           [start |-> low_threshold, end |-> high_threshold], clock)
    /\ IF is_on(state) # is_on(state')
          THEN pc' = "relay" /\ previous_state' = state /\ temperature' = temperature
          ELSE pc' = "top" /\ Dropped
    /\ events' = Append(events, Event("transition", temperature, is_on(state), is_on(state')))
    /\ UNCHANGED <<clock, relay, restored, stored_compensation, boot, initial_state,
                   low_compensator, high_compensator, low_threshold, high_threshold,
                   extremes, cycles, persist_calls, lastCommand, half_cycle,
                   transitionVars, compVars, trackerVars>>

\* run: world.set_power_state(new_state.is_on()), cycles += 1
SetPower ==
    /\ pc = "relay"
    /\ relay' = is_on(state)
    /\ cycles' = cycles + 1
    /\ lastCommand' = [issued |-> TRUE, on |-> is_on(state), at |-> clock]
    /\ events' = Append(events, Event("relay", Zero, FALSE, is_on(state)))
    /\ IF cycles' > 2
          THEN /\ pc' = IF is_off(state) THEN "persist" ELSE "compensate_low"
               /\ UNCHANGED <<temperature, previous_state, half_cycle>>
          ELSE /\ pc' = "top"
               /\ Dropped
               /\ half_cycle' = ExtremeTracker_new
    /\ UNCHANGED <<clock, restored, stored_compensation, boot, initial_state, state,
                   low_compensator, high_compensator, low_threshold, high_threshold,
                   extremes, persist_calls, transitionVars, compVars, trackerVars>>

\* run: world.persist_last_off_transition(), which may fail
Persist ==
    /\ pc = "persist"
    /\ persist_calls' = persist_calls + 1
    /\ pc' = "compensate_high"
    /\ events' = Append(events, Event("persist", Zero, FALSE, FALSE))
    /\ UNCHANGED <<clock, relay, restored, stored_compensation, boot, initial_state, state,
                   previous_state, temperature,
                   low_compensator, high_compensator, low_threshold, high_threshold,
                   extremes, cycles, lastCommand, half_cycle,
                   transitionVars, compVars, trackerVars>>

\* CompensateHigh that gives the maximum to the low compensator
CompensateHigh_low ==
    /\ pc = "compensate_high"
    /\ LET max_temp_during_on_cycle == ExtremeTracker_max(extremes) IN
       IF max_temp_during_on_cycle.some
          THEN /\ low_compensator' = push_observation(low_compensator,
                                                      max_temp_during_on_cycle.x)
               /\ low_threshold' = get_threshold(low_compensator')
               /\ events' = Append(events, Event("feed_high", max_temp_during_on_cycle.x,
                                                 FALSE, FALSE))
          ELSE UNCHANGED <<low_compensator, low_threshold, events>>
    /\ pc' = "reset"
    /\ UNCHANGED <<clock, relay, restored, stored_compensation, boot, initial_state, state,
                   previous_state, temperature,
                   high_compensator, high_threshold, extremes, cycles, persist_calls,
                   lastCommand, half_cycle, transitionVars, compVars, trackerVars>>

\* run: On -> Off, the maximum of the on cycle goes to the high compensator
CompensateHigh ==
    /\ pc = "compensate_high"
    /\ LET max_temp_during_on_cycle == ExtremeTracker_max(extremes) IN
       IF max_temp_during_on_cycle.some
          THEN /\ high_compensator' = push_observation(high_compensator,
                                                       max_temp_during_on_cycle.x)
               /\ high_threshold' = get_threshold(high_compensator')
               /\ events' = Append(events, Event("feed_high", max_temp_during_on_cycle.x,
                                                 FALSE, FALSE))
          ELSE UNCHANGED <<high_compensator, high_threshold, events>>
    /\ pc' = "reset"
    /\ UNCHANGED <<clock, relay, restored, stored_compensation, boot, initial_state, state,
                   previous_state, temperature,
                   low_compensator, low_threshold, extremes, cycles, persist_calls,
                   lastCommand, half_cycle, transitionVars, compVars, trackerVars>>

\* run: Off -> On, the minimum of the off cycle goes to the low compensator
CompensateLow ==
    /\ pc = "compensate_low"
    /\ LET min_temp_during_off_cycle == ExtremeTracker_min(extremes) IN
       IF min_temp_during_off_cycle.some
          THEN /\ low_compensator' = push_observation(low_compensator,
                                                      min_temp_during_off_cycle.x)
               /\ low_threshold' = get_threshold(low_compensator')
               /\ events' = Append(events, Event("feed_low", min_temp_during_off_cycle.x,
                                                 FALSE, FALSE))
          ELSE UNCHANGED <<low_compensator, low_threshold, events>>
    /\ pc' = "reset"
    /\ UNCHANGED <<clock, relay, restored, stored_compensation, boot, initial_state, state,
                   previous_state, temperature,
                   high_compensator, high_threshold, extremes, cycles, persist_calls,
                   lastCommand, half_cycle, transitionVars, compVars, trackerVars>>

\* run: extremes.reset(), the end of the loop body
ResetExtremes ==
    /\ pc = "reset"
    /\ extremes' = ExtremeTracker_reset(extremes)
    /\ half_cycle' = ExtremeTracker_new
    /\ pc' = "top"
    /\ Dropped
    /\ events' = Append(events, Event("reset", Zero, FALSE, FALSE))
    /\ UNCHANGED <<clock, relay, restored, stored_compensation, boot, initial_state, state,
                   low_compensator, high_compensator, low_threshold, high_threshold,
                   cycles, persist_calls, lastCommand,
                   transitionVars, compVars, trackerVars>>

Next ==
    \/ Startup
    \/ LoopTop
    \/ ReadFail
    \/ ReadOk
    \/ PushExtremes
    \/ Evaluate
    \/ SetPower
    \/ Persist
    \/ CompensateHigh
    \/ CompensateLow
    \/ ResetExtremes

Spec == Init /\ [][Next]_vars

----------------------------------------------------------------------------
(* The loop in a World whose readings stay outside the band: above the high
   threshold while the state is off, below the low threshold while it is on;
   reads succeed in the end, sleep returns on time and the loop keeps
   running *)

\* World::sleep returned after the duration it was asked for
Punctual(duration) == clock' \in {clock, clock + duration}

\* run: the poll sleep at the top of the loop, on time
LoopTopPunctual == LoopTop /\ Punctual(POLL_DURATION)

\* run: get_temperature failed, the backoff sleep on time
ReadFailPunctual == ReadFail /\ Punctual(READ_BACKOFF)

\* run: get_temperature succeeded, with a reading on the far side of the
\* threshold that the state is waiting for
ReadOutside ==
    /\ ReadOk
    /\ IF is_off(state)
          THEN FGt(temperature', high_threshold)
          ELSE FLt(temperature', low_threshold)

\* the steps of the loop other than a failed read
LoopStep ==
    \/ Startup
    \/ LoopTopPunctual
    \/ ReadOutside
    \/ PushExtremes
    \/ Evaluate
    \/ SetPower
    \/ Persist
    \/ CompensateHigh
    \/ CompensateLow
    \/ ResetExtremes

LiveNext == LoopStep \/ ReadFailPunctual

SpecLive == Init /\ [][LiveNext]_vars /\ WF_vars(LoopStep)

----------------------------------------------------------------------------
(* The start of the program alone, for every stored compensation *)

StoredCompensations ==
    {StoredCompensation(cooling, heating) :
        cooling \in {Zero, C(50), C(160), C(200)},
        heating \in {Zero, C(-50), C(-200)}}

StartupInit ==
    /\ restored \in RestoreResults
    /\ stored_compensation \in StoredCompensations
    /\ Loaded

StartupNext == Startup

SpecStartup == StartupInit /\ [][StartupNext]_vars

----------------------------------------------------------------------------
(* Properties *)

Range(seq) == {seq[i] : i \in 1..Len(seq)}

\* the guard of a MinimumInterval state has not expired at the time of the call
Unexpired(c) ==
    \/ c.initial.tag = "MinimumIntervalOn"
       /\ c.now - c.initial.since < MINIMUM_ON_DURATION
    \/ c.initial.tag = "MinimumIntervalOff"
       /\ c.now - c.initial.since < MINIMUM_OFF_DURATION

\* C1: consecutive relay commands respect the minimum dwell. Each
\* set_power_state call that follows an earlier one commands the opposite
\* value, and the transition it belongs to was evaluated no earlier than
\* MINIMUM_ON_DURATION after the transition of a preceding
\* set_power_state(true), MINIMUM_OFF_DURATION after that of a preceding
\* set_power_state(false).
C1_MinimumDwell ==
    [][(lastCommand.issued /\ lastCommand' # lastCommand) =>
          /\ lastCommand'.on # lastCommand.on
          /\ lastCommand'.at >= lastCommand.at
                + (IF lastCommand.on THEN MINIMUM_ON_DURATION ELSE MINIMUM_OFF_DURATION)]_vars

\* the relay was switched on at startup and off exactly MINIMUM_ON_DURATION later
C1_Witness ==
    /\ cycles = 2
    /\ lastCommand.issued
    /\ ~lastCommand.on
    /\ initial_state = InitiallyOff
    /\ lastCommand.at = boot + MINIMUM_ON_DURATION

\* C2: transition returns a MinimumInterval state unchanged exactly when its
\* guard has not expired: MinimumIntervalOn(s) iff now - s < MINIMUM_ON_DURATION,
\* MinimumIntervalOff(s) iff now - s < MINIMUM_OFF_DURATION, whatever the
\* temperature and the thresholds.
C2_GuardExact ==
    (result # Pending /\ call.initial.tag \in {"MinimumIntervalOn", "MinimumIntervalOff"}) =>
        /\ call.initial.tag = "MinimumIntervalOn" =>
              ((result = call.initial)
                  <=> (call.now - call.initial.since < MINIMUM_ON_DURATION))
        /\ call.initial.tag = "MinimumIntervalOff" =>
              ((result = call.initial)
                  <=> (call.now - call.initial.since < MINIMUM_OFF_DURATION))

\* a guard of exactly the minimum duration, with a temperature that asks for
\* no change, and the state is left
C2_Witness ==
    /\ call.initial = MinimumIntervalOff(call.now - MINIMUM_OFF_DURATION)
    /\ call.current_temperature = C(200)
    /\ call.threshold_range = [start |-> TARGET_RANGE.start, end |-> TARGET_RANGE.end]
    /\ result = Off

\* C3: without an unexpired guard transition is two-point hysteresis with
\* strict comparisons: from an on state MinimumIntervalOff(now) iff
\* temperature < low, else On; from an off state MinimumIntervalOn(now) iff
\* temperature > high, else Off. A temperature with low <= t <= high never
\* changes the on/off-ness, and the result is never InitiallyOff.
C3_Hysteresis ==
    result # Pending =>
        LET t == call.current_temperature
            low == call.threshold_range.start
            high == call.threshold_range.end
        IN  /\ result.tag # "InitiallyOff"
            /\ (~Unexpired(call) /\ call.initial.tag \in {"On", "MinimumIntervalOn"}) =>
                  result = IF FLt(t, low) THEN MinimumIntervalOff(call.now) ELSE On
            /\ (~Unexpired(call)
                /\ call.initial.tag \in {"Off", "InitiallyOff", "MinimumIntervalOff"}) =>
                  result = IF FGt(t, high) THEN MinimumIntervalOn(call.now) ELSE Off
            /\ (FLe(low, t) /\ FLe(t, high)) =>
                  (result.tag \in {"On", "MinimumIntervalOn"})
                      = (call.initial.tag \in {"On", "MinimumIntervalOn"})

\* On with a temperature exactly at the low threshold stays On
C3_Witness ==
    /\ call.initial = On
    /\ call.current_temperature = call.threshold_range.start
    /\ result = On

\* x lies between a and b, whichever of the two is the smaller
Between(a, x, b) == (FLe(a, x) /\ FLe(x, b)) \/ (FLe(b, x) /\ FLe(x, a))

\* C4: after any sequence of push_observation calls get_compensation() lies
\* between 0 and max_compensation inclusive, and get_threshold() between
\* target and target + max_compensation.
C4_CompensationBounded ==
    config # NoConfig =>
        /\ Between(Zero, get_compensation(comp), comp.max_compensation)
        /\ Between(comp.target, get_threshold(comp),
                   FAdd(comp.target, comp.max_compensation))

\* an observation left a positive compensation in a Compensator that may only
\* lower its threshold
C4_Witness ==
    /\ Len(pushed) > 0
    /\ FLt(comp.max_compensation, Zero)
    /\ FGt(comp.compensation, Zero)
    /\ get_compensation(comp) = Zero

\* the stored compensation is beyond max_compensation, on its side of zero
Beyond(c) ==
    \/ FGt(c.max_compensation, Zero) /\ FGt(c.compensation, c.max_compensation)
    \/ FLt(c.max_compensation, Zero) /\ FLt(c.compensation, c.max_compensation)

\* the stored compensation has the sign opposite to max_compensation
Opposite(c) ==
    \/ FGt(c.max_compensation, Zero) /\ FLt(c.compensation, Zero)
    \/ FLt(c.max_compensation, Zero) /\ FGt(c.compensation, Zero)

\* C5: get_compensation() is max_compensation, with is_capped() true, when the
\* stored compensation is beyond max_compensation; otherwise 0, with
\* is_capped() false, when the stored compensation has the opposite sign;
\* otherwise the stored compensation, with is_capped() false. The same for a
\* stored value from the seed and from an observation.
C5_TwoClamps ==
    config # NoConfig =>
        IF Beyond(comp)
            THEN get_compensation(comp) = comp.max_compensation /\ is_capped(comp)
        ELSE IF Opposite(comp)
            THEN get_compensation(comp) = Zero /\ ~is_capped(comp)
        ELSE get_compensation(comp) = comp.compensation /\ ~is_capped(comp)

\* an observation took the stored compensation beyond max_compensation
C5_Witness ==
    /\ Len(pushed) > 0
    /\ before.compensation = Zero
    /\ Beyond(comp)
    /\ get_compensation(comp) = comp.max_compensation

\* how many elements of the history are below x, and how many are not above x
Below(h, x) == Cardinality({i \in 1..Len(h) : FLt(h[i], x)})
NotAbove(h, x) == Cardinality({i \in 1..Len(h) : FLe(h[i], x)})

\* the k-th smallest element of a history without NaN
Kth(h, k) == CHOOSE x \in Range(h) : Below(h, x) < k /\ k <= NotAbove(h, x)

\* the median of a non-empty history without NaN
MedianOf(h) ==
    LET n == Len(h) IN
    IF n % 2 = 1 THEN Kth(h, (n + 1) \div 2)
    ELSE FHalf(FAdd(Kth(h, n \div 2), Kth(h, (n \div 2) + 1)))

\* the example: target 33.0, seed 0, cap 3.0
ExampleValues == <<C(3200), C(3300), C(3250), C(3250), C(3275)>>
ExampleCompensation == <<C(100), C(100), C(100), C(125), C(150)>>

\* C6: push_observation of a valid value appends get_threshold() - value, with
\* the threshold as it was before the push, and a stored compensation that
\* changes becomes the median of the history. In the example the compensation
\* after each push is 1.0, 1.0, 1.0, 1.25, 1.5.
C6_MedianOfDeltas ==
    /\ (Len(pushed) > 0 /\ ~is_nan(lastValue)) =>
          /\ Len(comp.observations) > 0
          /\ comp.observations[Len(comp.observations)]
                = FSub(get_threshold(before), lastValue)
          /\ comp.compensation # before.compensation =>
                comp.compensation = MedianOf(comp.observations)
    /\ (/\ config.target = C(3300) /\ config.seed = Zero /\ config.max = C(300)
        /\ Len(pushed) \in 1..Len(ExampleValues)
        /\ pushed = SubSeq(ExampleValues, 1, Len(pushed))) =>
          get_compensation(comp) = ExampleCompensation[Len(pushed)]

\* the fourth push of the example: the average of the two middle deltas
C6_Witness ==
    /\ pushed = SubSeq(ExampleValues, 1, 4)
    /\ config.target = C(3300)
    /\ comp.compensation = C(125)
    /\ before.compensation = C(100)

\* C7: push_observation of NaN leaves the Compensator as it was, and the
\* history never holds a NaN.
C7_NaNDiscarded ==
    /\ is_nan(lastValue) => comp = before
    /\ \A i \in 1..Len(comp.observations) : ~is_nan(comp.observations[i])

\* NaN was pushed to a Compensator that holds observations
C7_Witness ==
    /\ is_nan(lastValue)
    /\ Len(comp.observations) > 1
    /\ comp = before

\* C8: a tracker without a push since new/reset reports no minimum and no
\* maximum; after pushes, min() is the least and max() the greatest of the
\* values pushed since then, and min() <= max().
C8_Extremes ==
    IF samples = <<>>
        THEN ExtremeTracker_min(tracker) = None /\ ExtremeTracker_max(tracker) = None
        ELSE LET lo == ExtremeTracker_min(tracker)
                 hi == ExtremeTracker_max(tracker)
             IN  /\ lo.some /\ hi.some
                 /\ lo.x \in Range(samples)
                 /\ hi.x \in Range(samples)
                 /\ \A x \in Range(samples) : FLe(lo.x, x) /\ FLe(x, hi.x)
                 /\ FLe(lo.x, hi.x)

\* what the claim expects of init
InitExpected(restore, now) ==
    CASE restore.tag = "CurrentlyOn" -> MinimumIntervalOn(now)
      [] restore.tag = "OffFor" /\ restore.duration > MINIMUM_OFF_DURATION -> InitiallyOff
      [] restore.tag = "OffFor" /\ restore.duration <= MINIMUM_OFF_DURATION ->
            MinimumIntervalOff(now - restore.duration)
      [] restore.tag = "OffForUnknownDuration" -> MinimumIntervalOff(now)
      [] restore.tag = "Err" -> MinimumIntervalOff(now)

\* C9: init maps CurrentlyOn to MinimumIntervalOn(now), OffFor(d) to
\* InitiallyOff when d > MINIMUM_OFF_DURATION and to MinimumIntervalOff(now - d)
\* otherwise, an unknown off duration and a failed restore to
\* MinimumIntervalOff(now); it never returns On or Off.
C9_InitMapping ==
    pc # "main" =>
        /\ initial_state = InitExpected(restored, boot)
        /\ initial_state.tag \notin {"On", "Off"}

\* off for exactly MINIMUM_OFF_DURATION: the guard is kept
C9_Witness ==
    /\ pc # "main"
    /\ restored = OffFor(MINIMUM_OFF_DURATION)
    /\ initial_state = MinimumIntervalOff(boot - MINIMUM_OFF_DURATION)

\* C10: after a start with the relay off for d <= MINIMUM_OFF_DURATION no
\* set_power_state(true) belongs to a transition evaluated less than
\* MINIMUM_OFF_DURATION - d after startup; with an unknown off duration or a
\* failed restore none less than MINIMUM_OFF_DURATION after startup; after a
\* start with the relay on, no set_power_state(false) less than
\* MINIMUM_ON_DURATION after startup.
C10_RestartGuard ==
    lastCommand.issued =>
        /\ (/\ restored.tag = "OffFor"
            /\ restored.duration <= MINIMUM_OFF_DURATION
            /\ lastCommand.on) =>
              lastCommand.at - boot >= MINIMUM_OFF_DURATION - restored.duration
        /\ (restored.tag \in {"OffForUnknownDuration", "Err"} /\ lastCommand.on) =>
              lastCommand.at - boot >= MINIMUM_OFF_DURATION
        /\ (restored.tag = "CurrentlyOn" /\ ~lastCommand.on) =>
              lastCommand.at - boot >= MINIMUM_ON_DURATION

\* off for 295 s before the start: the relay is switched on at the first
\* evaluation that is 185 s or more after startup
C10_Witness ==
    /\ restored = OffFor(295)
    /\ cycles = 1
    /\ lastCommand.issued
    /\ lastCommand.on
    /\ lastCommand.at = boot + 185

\* the positions in the log of the current iteration that hold the event e
At(e) == {i \in 1..Len(events) : events[i].e = e}

\* C11: in every iteration that switches the relay off, the first after
\* startup included, persist_last_off_transition is called once, after
\* set_power_state(false) and before the next temperature read.
C11_PersistEveryOff ==
    (pc = "top" /\ \E i \in At("relay") : ~events[i].on) =>
        /\ Cardinality(At("persist")) = 1
        /\ \A i \in At("relay"), j \in At("persist") : i < j

\* C12: before any observation, get_compensation() of the low and of the
\* high Compensator is the clamped low (cooling) and high (heating)
\* compensation that the World had stored.
C12_SeededFromRestore ==
    (pc # "main" /\ restored # RestoreFailed) =>
        /\ get_compensation(low_compensator)
              = get_compensation(Compensator_new(TARGET_RANGE.start,
                                                 stored_compensation.cooling,
                                                 MAX_COMPENSATION))
        /\ get_compensation(high_compensator)
              = get_compensation(Compensator_new(TARGET_RANGE.end,
                                                 stored_compensation.heating,
                                                 FNeg(MAX_COMPENSATION)))

\* C13: a failed temperature read only sleeps the backoff and retries: the
\* control state, the relay, both compensators, both thresholds and the
\* ExtremeTracker stay as they are; a read that succeeds goes on, with its
\* reading, to the tracker push.
C13_ReadFailureHarmless ==
    [][pc = "read" =>
          /\ UNCHANGED <<state, relay, lastCommand, cycles, extremes,
                         low_compensator, high_compensator,
                         low_threshold, high_threshold>>
          /\ IF pc' = "read"
                THEN clock' >= clock + READ_BACKOFF
                ELSE /\ pc' = "push"
                     /\ clock' = clock
                     /\ temperature' \in Temperatures
                     /\ events' = <<Event("read", temperature', FALSE, FALSE)>>]_vars

\* a read failed before the first reading of the run was taken: the process
\* is still at the read, one backoff later
C13_Witness ==
    /\ pc = "read"
    /\ state = InitiallyOff
    /\ clock = boot + READ_BACKOFF
    /\ extremes = ExtremeTracker_new

\* the positions in the log that hold a compensator update
Feeds == At("feed_high") \cup At("feed_low")

\* C14: the warm-up covers exactly the first change of on/off-ness: that
\* iteration commands the relay, feeds no compensator and does not reset the
\* ExtremeTracker; the iteration of the second and of every later change
\* feeds a compensator and resets the tracker.
C14_WarmUpFirstChange ==
    (pc = "top" /\ At("relay") # {}) =>
        IF cycles = 1
            THEN Feeds = {} /\ At("reset") = {}
            ELSE Feeds # {} /\ At("reset") # {}

\* C15: the value that the loop feeds a compensator at a change of
\* on/off-ness is the extreme (maximum on a change to off, minimum on a change
\* to on) of the readings taken since the previous change, the reading that
\* triggered this change included, and of no earlier reading.
C15_FedFromHalfCycle ==
    /\ pc = "compensate_high" =>
          ExtremeTracker_max(extremes) = ExtremeTracker_max(half_cycle)
    /\ pc = "compensate_low" =>
          ExtremeTracker_min(extremes) = ExtremeTracker_min(half_cycle)

\* C16: within an iteration the transition uses the one reading taken before
\* it in that iteration; the relay command follows the transition that changed
\* the on/off-ness; compensator updates and the tracker reset follow the relay
\* command, and are done when the iteration ends, before the next read.
C16_Ordered ==
    /\ Cardinality(At("read")) <= 1
    /\ \A i \in At("transition") :
          \E j \in At("read") : j < i /\ events[j].t = events[i].t
    /\ \A i \in At("relay") :
          \E j \in At("transition") :
              j < i /\ events[j].was # events[j].on /\ events[i].on = events[j].on
    /\ \A i \in Feeds \cup At("reset") : \E j \in At("relay") : j < i
    /\ \A i \in Feeds, j \in At("reset") : i < j
    /\ pc \in {"top", "read"} => (Feeds # {} => At("reset") # {})
    /\ pc = "read" => events = <<>>

\* an iteration that switched the relay off and did all of the bookkeeping
C16_Witness ==
    /\ pc = "top"
    /\ Len(events) = 7
    /\ events[4].e = "relay"
    /\ events[5].e = "persist"
    /\ events[6].e = "feed_high"
    /\ events[7].e = "reset"

\* the state counts as on
OnTag(st) == st.tag \in {"MinimumIntervalOn", "On"}

\* C17: an iteration calls set_power_state if and only if its transition
\* changed the on/off-ness, once, with is_on() of the new state; so at the end
\* of every iteration the relay is on exactly when the state is
\* MinimumIntervalOn or On.
C17_RelayFollowsState ==
    /\ Cardinality(At("relay")) <= 1
    /\ \A i \in At("relay") : events[i].on = OnTag(state)
    /\ pc = "top" =>
          /\ relay = OnTag(state)
          /\ \A j \in At("transition") :
                (events[j].was # events[j].on) <=> (At("relay") # {})

\* the guard of MinimumIntervalOn expired without a change: the state is On
\* and the relay still on
C17_Witness ==
    /\ pc = "top"
    /\ state = On
    /\ relay
    /\ cycles = 1
    /\ At("transition") # {}
    /\ At("relay") = {}

\* C18: a step of the loop changes the low compensator or the low threshold
\* only in an iteration that switched the relay on, and the high compensator
\* or the high threshold only in an iteration that switched the relay off.
C18_CompensatorFrame ==
    [][pc # "main" =>
          /\ <<low_compensator, low_threshold>>' # <<low_compensator, low_threshold>> =>
                \E i \in At("relay") : events[i].on
          /\ <<high_compensator, high_threshold>>' # <<high_compensator, high_threshold>> =>
                \E i \in At("relay") : ~events[i].on]_vars

\* a change to off moved the high threshold and left the low one at its target
C18_Witness ==
    /\ pc = "reset"
    /\ At("feed_high") # {}
    /\ high_threshold # TARGET_RANGE.end
    /\ low_threshold = TARGET_RANGE.start

\* C19: push_observation of a valid value sets the stored compensation to the
\* median of the history if and only if the median differs from the stored
\* compensation by more than 0.01; otherwise the stored compensation,
\* get_compensation() and get_threshold() stay as they were, and the delta is
\* appended to the history all the same.
C19_EpsilonGuard ==
    (Len(pushed) > 0 /\ ~is_nan(lastValue)) =>
        LET median_delta == MedianOf(comp.observations)
            update == FSub(median_delta, before.compensation)
        IN  /\ comp.observations[Len(comp.observations)]
                  = FSub(get_threshold(before), lastValue)
            /\ IF FGt(FAbs(update), C(1))
                  THEN comp.compensation = median_delta
                  ELSE /\ comp.compensation = before.compensation
                       /\ get_compensation(comp) = get_compensation(before)
                       /\ get_threshold(comp) = get_threshold(before)

\* a first push that moved the median by exactly 0.01 was not taken, and the
\* second, which moved it by a little more, was
C19_Witness ==
    /\ Len(pushed) = 2
    /\ pushed[1] = C(4001)
    /\ ~is_nan(lastValue)
    /\ before.compensation = C(-100)
    /\ MedianOf(before.observations) = C(-101)
    /\ comp.compensation = MedianOf(comp.observations)
    /\ FLt(C(-102), comp.compensation)
    /\ FLt(comp.compensation, C(-101))

\* the lesser of two numbers
Min(a, b) == IF a < b THEN a ELSE b

\* C20: the history holds min(number of valid pushes, 10) deltas; a valid
\* push appends its delta at the back, and when the history already held 10
\* it drops the oldest one and nothing else.
C20_BoundedFifo ==
    /\ Len(comp.observations) = Min(Len(pushed), 10)
    /\ (Len(pushed) > 0 /\ ~is_nan(lastValue)) =>
          LET delta == FSub(get_threshold(before), lastValue) IN
          comp.observations =
              IF Len(before.observations) < 10
                  THEN Append(before.observations, delta)
                  ELSE Append(Tail(before.observations), delta)

\* the eleventh valid push evicted the oldest delta, which differed from the
\* second oldest
C20_Witness ==
    /\ Len(pushed) = 11
    /\ ~is_nan(lastValue)
    /\ Len(before.observations) = 10
    /\ Len(comp.observations) = 10
    /\ before.observations[1] # before.observations[2]
    /\ comp.observations[1] = before.observations[2]

\* C21: once run has begun, the state is InitiallyOff only when init started
\* there and no transition has been evaluated yet: no step enters
\* InitiallyOff and the evaluation of transition always leaves it. The
\* iteration that starts in InitiallyOff reads without a poll sleep; every
\* other iteration sleeps at least POLL_DURATION before its read.
C21_StartOnly ==
    [][pc # "main" =>
          /\ state' = InitiallyOff => state = InitiallyOff
          /\ state = InitiallyOff =>
                /\ initial_state = InitiallyOff
                /\ cycles = 0
                /\ At("transition") = {}
          /\ pc = "transition" => state' # InitiallyOff
          /\ (pc = "top" /\ pc' = "read") =>
                IF state = InitiallyOff
                    THEN clock' = clock
                    ELSE clock' >= clock + POLL_DURATION]_vars

\* the first reading of a run that started in InitiallyOff was taken at the
\* time of the start and is about to be evaluated
C21_Witness ==
    /\ pc = "transition"
    /\ state = InitiallyOff
    /\ clock = boot
    /\ At("read") # {}

\* C22: once run has begun, the low threshold is strictly less than the high
\* threshold.
C22_BandOpen == pc # "main" => FLt(low_threshold, high_threshold)

\* C24: the ExtremeTracker holds a sample whenever the on/off-ness has
\* changed and up to its reset, so the compensator update always finds an
\* extreme; an iteration that changes the on/off-ness and passes the test of
\* cycles feeds one observation, a reading that was taken, to one compensator.
C24_TrackerHasData ==
    /\ pc \in {"relay", "persist", "compensate_high", "compensate_low"} =>
          /\ extremes.measured
          /\ ExtremeTracker_min(extremes).some
          /\ ExtremeTracker_max(extremes).some
    /\ (pc \in {"reset", "top"} /\ At("relay") # {} /\ cycles > 2) =>
          /\ Cardinality(Feeds) = 1
          /\ \A i \in Feeds : events[i].t \in Temperatures
          /\ \A i \in At("relay") :
                IF events[i].on THEN At("feed_high") = {} ELSE At("feed_low") = {}

\* the fourth change of a run: the third fed the low compensator its first
\* observation, this one the high compensator
C24_Witness ==
    /\ pc = "top"
    /\ cycles = 4
    /\ Cardinality(At("feed_high")) = 1
    /\ Len(high_compensator.observations) = 1
    /\ Len(low_compensator.observations) = 1

\* the guard of the state has not expired at the present time
Guarded ==
    \/ state.tag = "MinimumIntervalOn" /\ clock - state.since < MINIMUM_ON_DURATION
    \/ state.tag = "MinimumIntervalOff" /\ clock - state.since < MINIMUM_OFF_DURATION

\* the loop is at its poll sleep and the time that the model covers is over
Halted ==
    /\ pc = "top"
    /\ state # InitiallyOff
    /\ clock + POLL_DURATION > StartClock + MaxClock

\* C23: with readings that stay above the high threshold while the state is
\* off and below the low threshold while it is on, reads that succeed in the
\* end and a clock that advances with every sleep: the evaluation of an off
\* state whose guard has expired turns it on, and that of an on state whose
\* guard has expired turns it off; every change is followed by the relay
\* command for the new state; so an off state leads to set_power_state(true)
\* and an on state to set_power_state(false), unless the time covered ends
\* with the guard still running.
C23_Responds ==
    /\ [][/\ (pc = "transition" /\ ~Guarded) =>
                (pc' = "relay" /\ is_on(state') # is_on(state))
          /\ pc = "relay" =>
                (relay' = is_on(state) /\ lastCommand'.issued
                                       /\ lastCommand'.on = is_on(state))]_vars
    /\ (pc # "main" /\ is_off(state)) ~>
          \/ is_on(state) /\ relay /\ lastCommand.issued /\ lastCommand.on
          \/ Halted /\ is_off(state) /\ Guarded
    /\ (pc # "main" /\ is_on(state)) ~>
          \/ is_off(state) /\ ~relay /\ lastCommand.issued /\ ~lastCommand.on
          \/ Halted /\ is_on(state) /\ Guarded

\* the relay was switched on at the first evaluation after the off guard of
\* the restored state expired, several reads having failed on the way
C23_Witness ==
    /\ pc = "top"
    /\ cycles = 1
    /\ restored = OffFor(295)
    /\ state = MinimumIntervalOn(clock)
    /\ relay
    /\ clock - boot >= MINIMUM_OFF_DURATION - 295
    /\ clock - boot < MINIMUM_OFF_DURATION - 295 + POLL_DURATION + READ_BACKOFF

====
